---- MODULE Spec2Model ----
(***************************************************************************)
(* A model of visualize_predictions.py: the driver main() and the          *)
(* inference+plot routine visualize_prediction().                          *)
(*                                                                         *)
(* Text is modelled as sequences of code points, so that comparison,       *)
(* concatenation and formatting are computed and not assumed.  Point       *)
(* coordinates are binary floating point numbers with Precision bits of    *)
(* significand, held as integers that count halves (k stands for k/2), so  *)
(* that the halving of lines 63 and 65-67 stays exact as it is in the      *)
(* program.                                                                *)
(***************************************************************************)
EXTENDS Integers, Sequences, FiniteSets, TLC

(***************************************************************************)
(* Bounds of the model.                                                    *)
(***************************************************************************)
\* the largest number of points of a sample
MaxPoints == 2
\* the largest number of entries of the checkpoint root
MaxEntries == 2
\* bits of significand of the floating point format of the coordinates
Precision == 3

(***************************************************************************)
(* String literals (code points).                                          *)
(***************************************************************************)
\* "configs/config.yaml"
S_config_path == <<99, 111, 110, 102, 105, 103, 115, 47, 99, 111, 110, 102, 105, 103, 46, 121, 97, 109, 108>>
\* "checkpoints": the value of training.checkpoint_dir in the configuration
S_checkpoints == <<99, 104, 101, 99, 107, 112, 111, 105, 110, 116, 115>>
\* "best_model.pt"
S_best_model == <<98, 101, 115, 116, 95, 109, 111, 100, 101, 108, 46, 112, 116>>
\* "2023-01-01"
S_2023_01_01 == <<50, 48, 50, 51, 45, 48, 49, 45, 48, 49>>
\* "2023-06-01"
S_2023_06_01 == <<50, 48, 50, 51, 45, 48, 54, 45, 48, 49>>
\* "2022-12-31"
S_2022_12_31 == <<50, 48, 50, 50, 45, 49, 50, 45, 51, 49>>
\* "run2"
S_run2 == <<114, 117, 110, 50>>
\* "run10"
S_run10 == <<114, 117, 110, 49, 48>>
\* "run"
S_run == <<114, 117, 110>>
\* "visualization_"
S_visualization == <<118, 105, 115, 117, 97, 108, 105, 122, 97, 116, 105, 111, 110, 95>>
\* "_model_"
S_model_infix == <<95, 109, 111, 100, 101, 108, 95>>
\* ".png"
S_png == <<46, 112, 110, 103>>
\* "curved"
S_curved == <<99, 117, 114, 118, 101, 100>>
\* "rect"
S_rect == <<114, 101, 99, 116>>
\* " Model "
S_Model == <<32, 77, 111, 100, 101, 108, 32>>
\* " - Ground Truth"
S_ground_truth == <<32, 45, 32, 71, 114, 111, 117, 110, 100, 32, 84, 114, 117, 116, 104>>
\* " - Predicted"
S_predicted == <<32, 45, 32, 80, 114, 101, 100, 105, 99, 116, 101, 100>>
\* "out.png"
S_out_png == <<111, 117, 116, 46, 112, 110, 103>>
\* "/"
S_sep == <<47>>

\* "%"
S_percent == <<37>>
\* "."
S_dot == <<46>>
\* "Accuracy: "
S_accuracy == <<65, 99, 99, 117, 114, 97, 99, 121, 58, 32>>

\* An optional value is a sequence of length at most one: None is <<>>.
None == <<>>
Some(v) == <<v>>

(***************************************************************************)
(* Python and library primitives the script uses.                          *)
(***************************************************************************)

\* str.__gt__: by code point, a proper prefix being the smaller
RECURSIVE StrGT(_, _)
StrGT(a, b) ==
    IF a = <<>> THEN FALSE
    ELSE IF b = <<>> THEN TRUE
    ELSE IF Head(a) # Head(b) THEN Head(a) > Head(b)
    ELSE StrGT(Tail(a), Tail(b))

\* max(iterable): the scan keeps an item only when it is greater than the best so far
RECURSIVE PyMaxFrom(_, _)
PyMaxFrom(best, rest) ==
    IF rest = <<>> THEN best
    ELSE IF StrGT(Head(rest), best) THEN PyMaxFrom(Head(rest), Tail(rest))
    ELSE PyMaxFrom(best, Tail(rest))

\* a plausible slip: min for max
RECURSIVE PyMinFrom(_, _)
PyMinFrom(best, rest) ==
    IF rest = <<>> THEN best
    ELSE IF StrGT(best, Head(rest)) THEN PyMinFrom(Head(rest), Tail(rest))
    ELSE PyMinFrom(best, Tail(rest))

LatestOfMutant(dirs) == PyMinFrom(Head(dirs), Tail(dirs))

\* line 106: latest_dir = max(timestamp_dirs), for a non-empty list
LatestOf(dirs) == PyMaxFrom(Head(dirs), Tail(dirs))

\* line 103: [d for d in os.listdir(checkpoint_dir) if os.path.isdir(join(checkpoint_dir, d))]
RECURSIVE DirsOf(_)
DirsOf(entries) ==
    IF entries = <<>> THEN <<>>
    ELSE IF Head(entries).isdir THEN <<Head(entries).name>> \o DirsOf(Tail(entries))
    ELSE DirsOf(Tail(entries))

\* a plausible slip: the emptiness test left out
NoDirsMutant(dirs) == FALSE

\* line 104: "not timestamp_dirs" is the emptiness of the list
NoDirs(dirs) == Len(dirs) = 0

\* os.path.join of two components (posixpath)
PathJoin(a, b) ==
    IF b # <<>> /\ Head(b) = Head(S_sep) THEN b
    ELSE IF a = <<>> \/ a[Len(a)] = Head(S_sep) THEN a \o b
    ELSE a \o S_sep \o b

\* line 109: os.path.join(checkpoint_dir, latest_dir, 'best_model.pt')
CheckpointPath(dir, latest) == PathJoin(PathJoin(dir, latest), S_best_model)

\* str(int) of a non-negative integer, as an f-string renders it
RECURSIVE DecStr(_)
DecStr(n) ==
    IF n < 10 THEN <<48 + n>>
    ELSE DecStr(n \div 10) \o <<48 + (n % 10)>>

\* a plausible slip: the form number left out of the file name
SavePathOfMutant(form_type, form_number) ==
    S_visualization \o form_type \o S_model_infix \o S_png

\* line 137: f"visualization_{form_type}_model_{form_number}.png"
SavePathOf(form_type, form_number) ==
    S_visualization \o form_type \o S_model_infix \o DecStr(form_number) \o S_png

Upper(c) == IF c >= 97 /\ c <= 122 THEN c - 32 ELSE c
Lower(c) == IF c >= 65 /\ c <= 90 THEN c + 32 ELSE c

\* str.capitalize (ASCII): first character upper-cased, the rest lower-cased
Capitalize(s) ==
    [i \in 1..Len(s) |-> IF i = 1 THEN Upper(s[i]) ELSE Lower(s[i])]

\* lines 35 and 49: f"{form_type.capitalize()} Model {form_number} - <which>"
TitleOf(md, which) ==
    Capitalize(md.form_type) \o S_Model \o DecStr(md.form_number) \o which

(***************************************************************************)
(* Floating point.  Fl rounds an integer to Precision significant bits,    *)
(* to nearest, ties to even: the rounding of every + and - of lines 59-71. *)
(***************************************************************************)
RECURSIVE Pow2(_)
Pow2(n) == IF n = 0 THEN 1 ELSE 2 * Pow2(n - 1)

\* the spacing of the representable numbers around x >= 0
RECURSIVE UlpFrom(_, _)
UlpFrom(x, u) == IF x < Pow2(Precision) * u THEN u ELSE UlpFrom(x, 2 * u)

FlNat(x) ==
    LET u == UlpFrom(x, 1)
        q == x \div u
        r == x % u
    IN  IF 2 * r < u THEN q * u
        ELSE IF 2 * r > u THEN (q + 1) * u
        ELSE IF q % 2 = 0 THEN q * u
        ELSE (q + 1) * u

Fl(x) == IF x < 0 THEN 0 - FlNat(0 - x) ELSE FlNat(x)

\* x / 2.0 and x * 0.5: exact in binary floating point (x is even wherever halved)
Half(x) == x \div 2

\* the float whose value is the whole number c, in halves
Coord(c) == 2 * c

\* points[:, a]: column a (0-based) of the N x 3 array
Column(points, a) == [i \in 1..Len(points) |-> points[i][a + 1]]

\* ndarray.max() and ndarray.min() of a non-empty array
RECURSIVE ArrMax(_)
ArrMax(v) ==
    IF Len(v) = 1 THEN v[1]
    ELSE LET m == ArrMax(Tail(v)) IN IF v[1] > m THEN v[1] ELSE m

RECURSIVE ArrMin(_)
ArrMin(v) ==
    IF Len(v) = 1 THEN v[1]
    ELSE LET m == ArrMin(Tail(v)) IN IF v[1] < m THEN v[1] ELSE m

\* lines 60-62: points[:, a].max() - points[:, a].min()
Span(points, a) == Fl(ArrMax(Column(points, a)) - ArrMin(Column(points, a)))

\* a plausible slip: the smallest span taken for the largest
MaxRangeMutant(points) ==
    Half(ArrMin(<<Span(points, 0), Span(points, 1), Span(points, 2)>>))

\* lines 59-63: np.array([span_x, span_y, span_z]).max() / 2.0
MaxRange(points) ==
    Half(ArrMax(<<Span(points, 0), Span(points, 1), Span(points, 2)>>))

\* lines 65-67: (points[:, a].max() + points[:, a].min()) * 0.5
Mid(points, a) == Half(Fl(ArrMax(Column(points, a)) + ArrMin(Column(points, a))))

\* lines 69-71: the limits (mid - max_range, mid + max_range) of axis a
Limits(points, a) ==
    [lo |-> Fl(Mid(points, a) - MaxRange(points)),
     hi |-> Fl(Mid(points, a) + MaxRange(points))]

(***************************************************************************)
(* Classes, colours, predictions.                                          *)
(***************************************************************************)
\* line 24
colors == <<"blue", "green", "yellow", "orange", "red">>
\* line 25
class_names == <<"No attention", "Low", "Medium-low", "Medium-high", "High">>
\* line 86: range(5)
NumClasses == 5
Classes == 0..(NumClasses - 1)

\* list[i] of Python: a negative index counts from the end, any other index
\* out of range raises IndexError
InRange(list, i) == i >= 0 - Len(list) /\ i < Len(list)
PyIndex(list, i) == IF i >= 0 THEN list[i + 1] ELSE list[Len(list) + i + 1]

\* a plausible slip: the table indexed from one
ColorListMutant(labels) ==
    [i \in 1..Len(labels) |-> PyIndex(colors, (labels[i] + 1) % Len(colors))]

\* lines 33 and 47: [colors[int(c)] for c in labels]
ColorList(labels) == [i \in 1..Len(labels) |-> PyIndex(colors, labels[i])]

\* whether the comprehension of lines 33 and 47 raises IndexError
ColorListRaises(labels) == \E i \in 1..Len(labels) : ~InRange(colors, labels[i])

RECURSIVE SumSeq(_)
SumSeq(v) == IF v = <<>> THEN 0 ELSE Head(v) + SumSeq(Tail(v))

\* line 17: torch.softmax(outputs, dim=1) of one row.  A probability is a pair
\* <<numerator, denominator>>; 2^x stands for e^x, both strictly increasing,
\* and the order of the probabilities is all that line 18 reads.
Softmax(row) ==
    LET e == [j \in 1..Len(row) |-> Pow2(row[j])]
    IN  [j \in 1..Len(row) |-> <<e[j], SumSeq(e)>>]

\* p < q for two probabilities
ProbLess(p, q) == p[1] * q[2] < q[1] * p[2]

\* line 18: argmax of one row, the first of the maximal entries, 0-based
RECURSIVE ArgMaxFrom(_, _, _)
ArgMaxFrom(row, best, j) ==
    IF j > Len(row) THEN best - 1
    ELSE IF ProbLess(row[best], row[j]) THEN ArgMaxFrom(row, j, j + 1)
    ELSE ArgMaxFrom(row, best, j + 1)

ArgMax(row) == ArgMaxFrom(row, 1, 2)

\* lines 17-18: predictions = softmax(outputs); pred_classes = predictions.argmax(dim=1)
PredClasses(outputs) == [i \in 1..Len(outputs) |-> ArgMax(Softmax(outputs[i]))]

\* a plausible slip: the mean taken over one element too many
AccuracyMutant(pred, truth) ==
    [num |-> SumSeq([i \in 1..Len(pred) |-> IF pred[i] = truth[i] THEN 1 ELSE 0]),
     den |-> Len(pred) + 1]

\* line 74: np.mean(pred_classes == ground_truth), the sum of the element-wise
\* comparison over its length, kept as a fraction
Accuracy(pred, truth) ==
    [num |-> SumSeq([i \in 1..Len(pred) |-> IF pred[i] = truth[i] THEN 1 ELSE 0]),
     den |-> Len(pred)]

\* round(n / d) to the nearest integer, ties to even
RoundDiv(n, d) ==
    LET q == n \div d
        r == n % d
    IN  IF 2 * r < d THEN q
        ELSE IF 2 * r > d THEN q + 1
        ELSE IF q % 2 = 0 THEN q
        ELSE q + 1

\* line 75: f'Accuracy: {accuracy:.2%}'
Suptitle(acc) ==
    LET bp == RoundDiv(10000 * acc.num, acc.den)
        cents == bp % 100
    IN  S_accuracy \o DecStr(bp \div 100) \o S_dot
            \o DecStr(cents \div 10) \o DecStr(cents % 10) \o S_percent

\* a plausible slip: the last class left out of the report
ReportClassesMutant == 0..(NumClasses - 2)

\* line 86: for i in range(5)
ReportClasses == 0..(NumClasses - 1)

\* lines 88-89: np.sum(labels == i)
CountEq(labels, i) ==
    SumSeq([k \in 1..Len(labels) |-> IF labels[k] = i THEN 1 ELSE 0])

\* lines 85-89: the report, one entry per class
ReportOf(truth, pred) ==
    [i \in ReportClasses |->
        [name |-> PyIndex(class_names, i),
         ground_truth |-> CountEq(truth, i),
         predicted |-> CountEq(pred, i)]]

(***************************************************************************)
(* The inputs: what the file system, the dataset and the network hold.     *)
(***************************************************************************)
\* the entry names a checkpoint root may hold
Names == {S_2023_01_01, S_2023_06_01, S_2022_12_31, S_run2, S_run10, S_run}

\* os.listdir: any order, no name twice; each entry is a directory or not
Entries == [name : Names, isdir : BOOLEAN]
Listings ==
    UNION {{l \in [1..n -> Entries] :
                \A i, j \in 1..n : i # j => l[i].name # l[j].name} : n \in 0..MaxEntries}

\* the listing of the example: three timestamped directories
ExampleListing ==
    <<[name |-> S_2023_01_01, isdir |-> TRUE],
      [name |-> S_2023_06_01, isdir |-> TRUE],
      [name |-> S_2022_12_31, isdir |-> TRUE]>>

FormTypes == {S_curved, S_rect}
\* line 124: test_models=[1, 15]
test_models == <<1, 15>>
\* the form numbers of the dataset: the two test models and a training model
FormNumbers == {1, 2, 15}

\* the rows of logits a forward pass may give a point: one class ahead, or a tie
OneHot(c) == [j \in 1..NumClasses |-> IF j = c + 1 THEN 1 ELSE 0]
Rows == {OneHot(c) : c \in Classes} \cup {[j \in 1..NumClasses |-> 0]}
\* the rows of the calls of several points
FewRows == {OneHot(1), OneHot(4), [j \in 1..NumClasses |-> 0]}

\* n points on the x axis
LinePoints(n) == [i \in 1..n |-> <<Coord(i - 1), Coord(0), Coord(0)>>]

\* the points of the bounding-box cases: the extremes of the example
\* (X:[0,2], Y:[0,4], Z:[0,1]) and coordinates whose span needs rounding
BoxPoints ==
    {<<Coord(0), Coord(0), Coord(0)>>, <<Coord(2), Coord(4), Coord(1)>>,
     <<Coord(0 - 1), Coord(0), Coord(0)>>, <<Coord(8), Coord(0), Coord(0)>>,
     <<Coord(2), Coord(0), Coord(1)>>, <<Coord(0), Coord(4), Coord(0)>>}

SampleOf(pts, labels, ft, fn) ==
    [x |-> pts, y |-> labels, metadata |-> [form_type |-> ft, form_number |-> fn]]

\* a network answers every sample of the dataset with one row of logits per point
ConstNet(row, n) == [fn \in FormNumbers |-> [i \in 1..n |-> row]]

\* direct calls: the labels and the logits vary
LabelCalls ==
    UNION {{[data |-> SampleOf(LinePoints(n), labels, S_curved, 1),
             net |-> [fn \in FormNumbers |-> outs],
             save_path |-> Some(S_out_png)] :
                labels \in [1..n -> Classes], outs \in [1..n -> FewRows]} : n \in 0..MaxPoints}

\* direct calls: the coordinates vary
PointCalls ==
    UNION {{[data |-> SampleOf(pts, [i \in 1..n |-> 0], S_rect, 15),
             net |-> ConstNet(OneHot(0), n),
             save_path |-> None] :
                pts \in [1..n -> BoxPoints]} : n \in 1..MaxPoints}

\* direct calls of one point: the save path varies (none, the empty string, a
\* file name), with every label and every row of logits
PathCalls ==
    {[data |-> SampleOf(LinePoints(1), <<l>>, S_curved, 1),
      net |-> ConstNet(r, 1),
      save_path |-> sp] :
         l \in Classes, r \in Rows, sp \in {None, Some(<<>>), Some(S_out_png)}}

\* the datasets of the driver: one-point samples, any of the form numbers present
OnePoint(ft, fn, l) == SampleOf(LinePoints(1), <<l>>, ft, fn)
SamplesOf(fn) == {OnePoint(ft, fn, l) : ft \in FormTypes, l \in {0, 4}}
Datasets ==
    {a \o b \o c :
        a \in {<<>>} \cup {<<s>> : s \in SamplesOf(1)},
        b \in {<<>>} \cup {<<s>> : s \in SamplesOf(2)},
        c \in {<<>>} \cup {<<s>> : s \in SamplesOf(15)}}


(***************************************************************************)
(* The state.                                                              *)
(***************************************************************************)
VARIABLES
    pc,               \* the statement about to run
    caller,           \* who called visualize_prediction: "main" or "direct"
    fs,               \* the entries of the checkpoint root, in os.listdir order
    dataset_src,      \* the samples PointCloudDataset finds on disk
    net,              \* the logits the network gives each sample
    config,           \* main: config
    model,            \* the model object: its weights and its mode
    timestamp_dirs,   \* main: timestamp_dirs
    latest_dir,       \* main: latest_dir
    checkpoint_path,  \* main: checkpoint_path
    dataset,          \* main: dataset
    test_loader,      \* main: the batches of test_loader
    batch_no,         \* main: how many batches the for loop has taken
    data,             \* visualize_prediction: data
    save_path,        \* visualize_prediction: save_path
    pred_classes,     \* visualize_prediction: pred_classes
    fig,              \* visualize_prediction: the figure
    accuracy,         \* visualize_prediction: accuracy
    files,            \* the image files written
    stdout,           \* what was printed
    error,            \* the exception that ended the run
    log               \* every step attempted, in order

vars == <<pc, caller, fs, dataset_src, net, config, model, timestamp_dirs, latest_dir,
          checkpoint_path, dataset, test_loader, batch_no, data, save_path,
          pred_classes, fig, accuracy, files, stdout, error, log>>

env == <<caller, fs, dataset_src, net>>
mainLocals == <<config, timestamp_dirs, latest_dir, checkpoint_path, dataset, test_loader, batch_no>>
vpLocals == <<data, save_path, pred_classes, fig, accuracy>>

IsNone(o) == Len(o) = 0
Get(o) == o[1]
NoError == [type |-> "none", at |-> "none"]
Event(op, k, ok) == [op |-> op, sample |-> k, ok |-> ok]

\* a plausible slip: the dataset built before the checkpoint is restored
MainNextMutant(step) ==
    CASE step = "load_config" -> "build_model"
      [] step = "build_model" -> "list_checkpoints"
      [] step = "list_checkpoints" -> "build_dataset"
      [] step = "build_dataset" -> "torch_load"
      [] step = "torch_load" -> "get_loaders"
      [] step = "get_loaders" -> "loop"

\* lines 91-138: the statement that follows each statement of main
MainNext(step) ==
    CASE step = "load_config" -> "build_model"
      [] step = "build_model" -> "list_checkpoints"
      [] step = "list_checkpoints" -> "torch_load"
      [] step = "torch_load" -> "build_dataset"
      [] step = "build_dataset" -> "get_loaders"
      [] step = "get_loaders" -> "loop"

\* a plausible slip: the figure shown before it is saved
VpNextMutant(step) ==
    CASE step = "forward" -> "scatter"
      [] step = "scatter" -> "limits"
      [] step = "limits" -> "accuracy"
      [] step = "accuracy" -> "show"
      [] step = "show" -> "savefig"
      [] step = "savefig" -> "report"

\* lines 12-89: the statement that follows each statement of visualize_prediction
VpNext(step) ==
    CASE step = "forward" -> "scatter"
      [] step = "scatter" -> "limits"
      [] step = "limits" -> "accuracy"
      [] step = "accuracy" -> "savefig"
      [] step = "savefig" -> "show"
      [] step = "show" -> "report"

\* a plausible slip: a handler that swallows the exception and goes on
OnErrorMutant(step) ==
    IF step = "savefig" THEN "show" ELSE IF step = "forward" THEN "loop" ELSE "raised"

\* no try/except anywhere: an exception raised at any statement ends the run
OnError(step) == "raised"

\* line 90 and line 138: where the return of visualize_prediction leads
ReturnTo(who) == IF who = "main" THEN "loop" ELSE "returned"

\* "if save_path:": None and the empty string are false
Truthy(sp) == ~IsNone(sp) /\ Get(sp) # <<>>

Raise(type, step) ==
    /\ error' = [type |-> type, at |-> step]
    /\ pc' = OnError(step)

(***************************************************************************)
(* main                                                                    *)
(***************************************************************************)
\* line 93
LoadConfig ==
    /\ pc = "load_config"
    /\ config' = Some([k |-> "model.k", dropout |-> "model.dropout",
                       checkpoint_dir |-> S_checkpoints, data_path |-> "data.path",
                       file |-> S_config_path])
    /\ log' = Append(log, Event("load_config", 0, TRUE))
    /\ pc' = MainNext("load_config")
    /\ UNCHANGED <<env, model, timestamp_dirs, latest_dir, checkpoint_path, dataset,
                   test_loader, batch_no, vpLocals, files, stdout, error>>

\* lines 96-99
BuildModel ==
    /\ pc = "build_model"
    /\ model' = [built |-> TRUE, weights |-> None, eval |-> FALSE, device |-> "cpu"]
    /\ log' = Append(log, Event("build_model", 0, TRUE))
    /\ pc' = MainNext("build_model")
    /\ UNCHANGED <<env, mainLocals, vpLocals, files, stdout, error>>

\* lines 102-110
ListCheckpoints ==
    /\ pc = "list_checkpoints"
    /\ timestamp_dirs' = Some(DirsOf(fs))
    /\ log' = Append(log, Event("list_checkpoints", 0, TRUE))
    /\ \/ /\ NoDirs(DirsOf(fs))
          /\ Raise("FileNotFoundError", "list_checkpoints")
          /\ UNCHANGED <<latest_dir, checkpoint_path, stdout>>
       \/ /\ ~NoDirs(DirsOf(fs))
          /\ IF DirsOf(fs) = <<>>
             THEN \* max() of an empty sequence
                  /\ Raise("ValueError", "list_checkpoints")
                  /\ UNCHANGED <<latest_dir, checkpoint_path, stdout>>
             ELSE /\ latest_dir' = Some(LatestOf(DirsOf(fs)))
                  /\ checkpoint_path' =
                        Some(CheckpointPath(Get(config).checkpoint_dir, LatestOf(DirsOf(fs))))
                  /\ stdout' = Append(stdout,
                        [line |-> "Loading checkpoint from",
                         path |-> CheckpointPath(Get(config).checkpoint_dir,
                                                 LatestOf(DirsOf(fs)))])
                  /\ pc' = MainNext("list_checkpoints")
                  /\ UNCHANGED error
    /\ UNCHANGED <<env, config, model, dataset, test_loader, batch_no, vpLocals, files>>

\* lines 112-113
TorchLoad ==
    /\ pc = "torch_load"
    /\ \/ /\ model' = [model EXCEPT !.weights = checkpoint_path]
          /\ log' = Append(log, Event("torch_load", 0, TRUE))
          /\ pc' = MainNext("torch_load")
          /\ UNCHANGED error
       \/ \* best_model.pt is missing or malformed
          /\ log' = Append(log, Event("torch_load", 0, FALSE))
          /\ Raise("FileNotFoundError", "torch_load")
          /\ UNCHANGED model
    /\ UNCHANGED <<env, mainLocals, vpLocals, files, stdout>>

\* lines 116-119
BuildDataset ==
    /\ pc = "build_dataset"
    /\ dataset' = Some([samples |-> dataset_src, data_dir |-> Get(config).data_path,
                        demographic |-> "novice"])
    /\ log' = Append(log, Event("build_dataset", 0, TRUE))
    /\ pc' = MainNext("build_dataset")
    /\ UNCHANGED <<env, config, model, timestamp_dirs, latest_dir, checkpoint_path,
                   test_loader, batch_no, vpLocals, files, stdout, error>>

\* get_train_test_dataloaders(dataset, test_models, batch_size=1): the samples
\* whose form number is one of test_models, in the order of the dataset
TestSamples(samples, ids) ==
    SelectSeq(samples, LAMBDA s : \E k \in 1..Len(ids) : ids[k] = s.metadata.form_number)

\* whether every requested test model is in the dataset
AllPresent(samples, ids) ==
    \A k \in 1..Len(ids) : \E i \in 1..Len(samples) : samples[i].metadata.form_number = ids[k]

\* lines 122-126
GetLoaders ==
    /\ pc = "get_loaders"
    /\ \/ /\ AllPresent(Get(dataset).samples, test_models)
          /\ test_loader' = TestSamples(Get(dataset).samples, test_models)
          /\ log' = Append(log, Event("get_loaders", 0, TRUE))
          /\ pc' = MainNext("get_loaders")
          /\ UNCHANGED error
       \/ /\ ~AllPresent(Get(dataset).samples, test_models)
          /\ log' = Append(log, Event("get_loaders", 0, FALSE))
          /\ Raise("ValueError", "get_loaders")
          /\ UNCHANGED test_loader
    /\ UNCHANGED <<env, config, model, timestamp_dirs, latest_dir, checkpoint_path,
                   dataset, batch_no, vpLocals, files, stdout>>

\* lines 129-138: the for loop takes the next batch and calls
\* visualize_prediction, or ends
NextBatch ==
    /\ pc = "loop"
    /\ \/ /\ batch_no < Len(test_loader)
          /\ batch_no' = batch_no + 1
          /\ data' = Some(test_loader[batch_no + 1])
          /\ save_path' = Some(SavePathOf(test_loader[batch_no + 1].metadata.form_type,
                                          test_loader[batch_no + 1].metadata.form_number))
          /\ pred_classes' = None
          /\ fig' = None
          /\ accuracy' = None
          /\ pc' = "forward"
       \/ /\ batch_no = Len(test_loader)
          /\ pc' = "done"
          /\ UNCHANGED <<batch_no, vpLocals>>
    /\ UNCHANGED <<env, config, model, timestamp_dirs, latest_dir, checkpoint_path,
                   dataset, test_loader, files, stdout, error, log>>

(***************************************************************************)
(* visualize_prediction                                                    *)
(***************************************************************************)
\* lines 12-18
Forward ==
    /\ pc = "forward"
    /\ model' = [model EXCEPT !.eval = TRUE]
    /\ \/ /\ pred_classes' = Some(PredClasses(net[Get(data).metadata.form_number]))
          /\ log' = Append(log, Event("forward", batch_no, TRUE))
          /\ pc' = VpNext("forward")
          /\ UNCHANGED error
       \/ \* the forward pass raises (a shape mismatch, say)
          /\ log' = Append(log, Event("forward", batch_no, FALSE))
          /\ Raise("RuntimeError", "forward")
          /\ UNCHANGED pred_classes
    /\ UNCHANGED <<env, mainLocals, data, save_path, fig, accuracy, files, stdout>>

Axes(c, title) ==
    [c |-> c, title |-> title, legend |-> [i \in 1..Len(colors) |->
                                              [color |-> colors[i], label |-> class_names[i]]],
     xlim |-> None, ylim |-> None, zlim |-> None, elev |-> None, azim |-> None]

\* lines 20-50: the two scatter plots, their titles and legends
Scatter ==
    /\ pc = "scatter"
    /\ IF ColorListRaises(Get(data).y) \/ ColorListRaises(Get(pred_classes))
       THEN /\ log' = Append(log, Event("scatter", batch_no, FALSE))
            /\ Raise("IndexError", "scatter")
            /\ UNCHANGED fig
       ELSE /\ fig' = Some([ax1 |-> Axes(ColorList(Get(data).y),
                                         TitleOf(Get(data).metadata, S_ground_truth)),
                            ax2 |-> Axes(ColorList(Get(pred_classes)),
                                         TitleOf(Get(data).metadata, S_predicted)),
                            suptitle |-> None])
            /\ log' = Append(log, Event("scatter", batch_no, TRUE))
            /\ pc' = VpNext("scatter")
            /\ UNCHANGED error
    /\ UNCHANGED <<env, mainLocals, model, data, save_path, pred_classes, accuracy,
                   files, stdout>>

\* lines 54-71, for one subplot
WithView(ax, points) ==
    [ax EXCEPT !.elev = Some(30), !.azim = Some(45),
               !.xlim = Some(Limits(points, 0)),
               !.ylim = Some(Limits(points, 1)),
               !.zlim = Some(Limits(points, 2))]

\* lines 52-71: for ax in [ax1, ax2]
SetLimits ==
    /\ pc = "limits"
    /\ IF Len(Get(data).x) = 0
       THEN \* max() of a zero-size array
            /\ log' = Append(log, Event("limits", batch_no, FALSE))
            /\ Raise("ValueError", "limits")
            /\ UNCHANGED fig
       ELSE /\ fig' = Some([Get(fig) EXCEPT !.ax1 = WithView(@, Get(data).x),
                                           !.ax2 = WithView(@, Get(data).x)])
            /\ log' = Append(log, Event("limits", batch_no, TRUE))
            /\ pc' = VpNext("limits")
            /\ UNCHANGED error
    /\ UNCHANGED <<env, mainLocals, model, data, save_path, pred_classes, accuracy,
                   files, stdout>>

\* lines 73-77
SetTitle ==
    /\ pc = "accuracy"
    /\ accuracy' = Some(Accuracy(Get(pred_classes), Get(data).y))
    /\ fig' = Some([Get(fig) EXCEPT
                       !.suptitle = Some(Suptitle(Accuracy(Get(pred_classes), Get(data).y)))])
    /\ log' = Append(log, Event("accuracy", batch_no, TRUE))
    /\ pc' = VpNext("accuracy")
    /\ UNCHANGED <<env, mainLocals, model, data, save_path, pred_classes, files, stdout, error>>

\* lines 79-80
SaveFig ==
    /\ pc = "savefig"
    /\ IF Truthy(save_path)
       THEN \/ /\ files' = files \cup {[path |-> Get(save_path), dpi |-> 300, bbox_inches |-> "tight"]}
               /\ log' = Append(log, Event("savefig", batch_no, TRUE))
               /\ pc' = VpNext("savefig")
               /\ UNCHANGED error
            \/ \* the path cannot be written
               /\ log' = Append(log, Event("savefig", batch_no, FALSE))
               /\ Raise("OSError", "savefig")
               /\ UNCHANGED files
       ELSE /\ pc' = VpNext("savefig")
            /\ UNCHANGED <<files, log, error>>
    /\ UNCHANGED <<env, mainLocals, model, vpLocals, stdout>>

\* line 82
Show ==
    /\ pc = "show"
    /\ log' = Append(log, Event("show", batch_no, TRUE))
    /\ pc' = VpNext("show")
    /\ UNCHANGED <<env, mainLocals, model, vpLocals, files, stdout, error>>

\* lines 85-89, and the return to the caller
Report ==
    /\ pc = "report"
    /\ stdout' = Append(stdout, [line |-> "Class Distribution:",
                                 classes |-> ReportOf(Get(data).y, Get(pred_classes))])
    /\ log' = Append(log, Event("report", batch_no, TRUE))
    /\ pc' = ReturnTo(caller)
    /\ UNCHANGED <<env, mainLocals, model, vpLocals, files, error>>

(***************************************************************************)
(* Specifications.                                                         *)
(***************************************************************************)
InitCommon ==
    /\ config = None
    /\ timestamp_dirs = None
    /\ latest_dir = None
    /\ checkpoint_path = None
    /\ dataset = None
    /\ test_loader = <<>>
    /\ batch_no = 0
    /\ pred_classes = None
    /\ fig = None
    /\ accuracy = None
    /\ files = {}
    /\ stdout = <<>>
    /\ error = NoError
    /\ log = <<>>

\* python visualize_predictions.py: main() starts with nothing loaded.  Either
\* the checkpoint root varies (over an empty dataset), or the dataset and the
\* network do (under the checkpoint root of the example).
Init ==
    /\ InitCommon
    /\ pc = "load_config"
    /\ caller = "main"
    /\ model = [built |-> FALSE, weights |-> None, eval |-> FALSE, device |-> "cpu"]
    /\ data = None
    /\ save_path = None
    /\ \/ /\ fs \in Listings
          /\ dataset_src = <<>>
          /\ net = ConstNet(OneHot(4), 1)
       \/ /\ fs = ExampleListing
          /\ dataset_src \in Datasets
          /\ net \in {ConstNet(r, 1) : r \in {OneHot(0), OneHot(4)}}

\* a direct call visualize_prediction(model, data, device, save_path)
InitCall ==
    /\ InitCommon
    /\ pc = "forward"
    /\ caller = "direct"
    /\ model = [built |-> TRUE, weights |-> None, eval |-> FALSE, device |-> "cpu"]
    /\ fs = <<>>
    /\ dataset_src = <<>>
    /\ \E c \in LabelCalls \cup PointCalls \cup PathCalls :
          /\ data = Some(c.data)
          /\ net = c.net
          /\ save_path = c.save_path

NextCall == Forward \/ Scatter \/ SetLimits \/ SetTitle \/ SaveFig \/ Show \/ Report

Next ==
    \/ LoadConfig \/ BuildModel \/ ListCheckpoints \/ TorchLoad \/ BuildDataset
    \/ GetLoaders \/ NextBatch \/ NextCall

Spec == Init /\ [][Next]_vars

SpecCall == InitCall /\ [][NextCall]_vars

(***************************************************************************)
(* Properties.                                                             *)
(***************************************************************************)
\* the positions of the log where step op was attempted for sample k
At(op, k) == {i \in 1..Len(log) : log[i].op = op /\ log[i].sample = k}
Truth == Get(data).y
Pred == Get(pred_classes)
NPoints == Len(Get(data).x)

\* C1: the accuracy visualize_prediction computes is the number of points whose
\* predicted class equals the ground-truth class, over the number of points N,
\* and lies in [0, 1].
C1_Accuracy ==
    ~IsNone(accuracy) =>
        LET a == Get(accuracy)
            matches == Cardinality({i \in 1..NPoints : Pred[i] = Truth[i]})
        IN  /\ a.den = NPoints
            /\ a.den > 0
            /\ a.num = matches
            /\ 0 <= a.num
            /\ a.num <= a.den

C1_Witness ==
    /\ ~IsNone(accuracy)
    /\ Get(accuracy).num = 1
    /\ Get(accuracy).den = 2
    /\ Pred # Truth

\* C2: in every class-distribution report there is one entry per class 0..4,
\* the five ground-truth counts sum to N and the five predicted counts sum to N.
C2_ReportSums ==
    \A k \in 1..Len(stdout) :
        LET r == stdout[k].classes
        IN  /\ DOMAIN r = 0..4
            /\ r[0].ground_truth + r[1].ground_truth + r[2].ground_truth
                 + r[3].ground_truth + r[4].ground_truth = NPoints
            /\ r[0].predicted + r[1].predicted + r[2].predicted
                 + r[3].predicted + r[4].predicted = NPoints

C2_Witness ==
    /\ pc = "returned"
    /\ Len(stdout) = 1
    /\ NPoints = 2
    /\ stdout[1].classes[4].ground_truth = 1
    /\ stdout[1].classes[4].predicted = 2

\* the fixed table, class index to colour
C3_Table(c) ==
    CASE c = 0 -> "blue" [] c = 1 -> "green" [] c = 2 -> "yellow"
      [] c = 3 -> "orange" [] c = 4 -> "red"

\* C3: the ground-truth and the predicted colour arrays each have length N, and
\* entry i is the colour of the fixed table at index label(i), one of the five.
C3_Colours ==
    ~IsNone(fig) =>
        LET gt == Get(fig).ax1.c
            pr == Get(fig).ax2.c
        IN  /\ Len(gt) = NPoints
            /\ Len(pr) = NPoints
            /\ \A i \in 1..NPoints :
                  /\ gt[i] = C3_Table(Truth[i])
                  /\ pr[i] = C3_Table(Pred[i])
                  /\ {gt[i], pr[i]} \subseteq {"blue", "green", "yellow", "orange", "red"}

C3_Witness ==
    /\ ~IsNone(fig)
    /\ Get(fig).ax1.c = <<"red", "blue">>
    /\ Get(fig).ax2.c = <<"green", "blue">>

\* a <= b in the lexicographic order of the code points: a is a prefix of b, or
\* at the first place where they differ a has the smaller code point
C4_LexLE(a, b) ==
    \E k \in 0..Len(a) :
        /\ k <= Len(b)
        /\ \A i \in 1..k : a[i] = b[i]
        /\ \/ k = Len(a)
           \/ k < Len(b) /\ a[k + 1] < b[k + 1]

C4_DirNames == {fs[i].name : i \in {j \in 1..Len(fs) : fs[j].isdir}}

\* C4: when the checkpoint root has subdirectories, main selects as latest the
\* lexicographically maximal subdirectory name ("2023-06-01" among
\* "2023-01-01", "2023-06-01", "2022-12-31"), never an entry that is not a
\* directory, and loads best_model.pt from exactly that directory.
C4_LatestIsLexMax ==
    /\ (~IsNone(timestamp_dirs) /\ C4_DirNames # {}) => ~IsNone(latest_dir)
    /\ ~IsNone(latest_dir) =>
          /\ Get(latest_dir) \in C4_DirNames
          /\ \A d \in C4_DirNames : C4_LexLE(d, Get(latest_dir))
          /\ C4_DirNames = {S_2023_01_01, S_2023_06_01, S_2022_12_31}
                => Get(latest_dir) = S_2023_06_01
    /\ ~IsNone(model.weights) =>
          /\ ~IsNone(latest_dir)
          /\ Get(model.weights) =
                S_checkpoints \o S_sep \o Get(latest_dir) \o S_sep \o S_best_model

\* the checkpoint of a directory was loaded although an entry that is not a
\* directory has a greater name
C4_Witness ==
    /\ ~IsNone(model.weights)
    /\ Get(latest_dir) = S_run10
    /\ \E i \in 1..Len(fs) : fs[i].name = S_run2 /\ ~fs[i].isdir

\* the steps that load a checkpoint, build the dataset, run the network or
\* write a file
C5_Later == {"torch_load", "build_dataset", "get_loaders", "forward", "scatter",
             "limits", "accuracy", "savefig", "show", "report"}

\* C5: if the checkpoint root holds no subdirectory, main raises
\* FileNotFoundError at the listing, and no checkpoint load, dataset
\* construction, inference call or file write has taken place.
C5_NoCheckpointDirs ==
    (~IsNone(timestamp_dirs) /\ C4_DirNames = {}) =>
        /\ pc = "raised"
        /\ error = [type |-> "FileNotFoundError", at |-> "list_checkpoints"]
        /\ IsNone(model.weights)
        /\ IsNone(dataset)
        /\ IsNone(data)
        /\ files = {}
        /\ \A i \in 1..Len(log) : log[i].op \notin C5_Later

\* the root holds entries, none of them a directory
C5_Witness ==
    /\ pc = "raised"
    /\ error.at = "list_checkpoints"
    /\ Len(fs) = 2
    /\ C4_DirNames = {}

\* the file name of a sample, from its metadata
C6_Name(s) ==
    S_visualization \o s.metadata.form_type \o S_model_infix
        \o DecStr(s.metadata.form_number) \o S_png

\* C6: after a failure-free run of main the distinct image files written are as
\* many as the test samples, one per sample, each named
\* visualization_<form_type>_model_<form_number>.png from the sample's metadata.
C6_OneFilePerSample ==
    pc = "done" =>
        LET paths == {f.path : f \in files}
        IN  /\ Cardinality(paths) = Len(test_loader)
            /\ paths = {C6_Name(test_loader[i]) : i \in 1..Len(test_loader)}
            /\ \A i, j \in 1..Len(test_loader) :
                  i # j => C6_Name(test_loader[i]) # C6_Name(test_loader[j])

\* both test samples are of the same form type
C6_Witness ==
    /\ pc = "done"
    /\ Len(test_loader) = 2
    /\ test_loader[1].metadata.form_type = test_loader[2].metadata.form_type
    /\ Cardinality(files) = 2

\* the steps of visualize_prediction that follow a step
C7_After(op) ==
    CASE op = "forward" -> {"scatter", "limits", "accuracy", "savefig", "show", "report"}
      [] op = "savefig" -> {"show", "report"}
      [] OTHER -> {}

\* C7: an error of the forward pass or of the file write propagates with no
\* retry: the failing step was attempted exactly once, it is the last thing
\* that happened, no later step of that call ran and no further sample is taken.
C7_NoRetry ==
    error.at \in {"forward", "savefig"} =>
        LET last == log[Len(log)]
        IN  /\ pc = "raised"
            /\ last = Event(error.at, batch_no, FALSE)
            /\ Cardinality(At(error.at, batch_no)) = 1
            /\ \A i \in 1..Len(log) :
                  /\ log[i].sample <= batch_no
                  /\ log[i].sample = batch_no => log[i].op \notin C7_After(error.at)
            /\ error.at = "forward" => IsNone(fig) /\ IsNone(pred_classes)
            /\ \A f \in files : f.path # Get(save_path)

\* the write of the first of two samples failed
C7_Witness ==
    /\ error.at = "savefig"
    /\ caller = "main"
    /\ batch_no = 1
    /\ Len(test_loader) = 2

\* the place of a step in the order of the program: the phase, then the sample,
\* then the step within visualize_prediction
C8_Phase(op) ==
    CASE op = "load_config" -> 1
      [] op = "build_model" -> 2
      [] op = "list_checkpoints" -> 3
      [] op = "torch_load" -> 4
      [] op = "build_dataset" -> 5
      [] op = "get_loaders" -> 6
      [] OTHER -> 7

C8_Step(op) ==
    CASE op = "forward" -> 1 [] op = "scatter" -> 2 [] op = "limits" -> 3
      [] op = "accuracy" -> 4 [] op = "savefig" -> 5 [] op = "show" -> 6
      [] op = "report" -> 7 [] OTHER -> 0

C8_Before(e, f) ==
    \/ C8_Phase(e.op) < C8_Phase(f.op)
    \/ /\ C8_Phase(e.op) = C8_Phase(f.op)
       /\ \/ e.sample < f.sample
          \/ e.sample = f.sample /\ C8_Step(e.op) < C8_Step(f.op)

\* C8: the phases run strictly in the order configuration load, model
\* construction, checkpoint restore, dataset construction, iteration over the
\* test samples; the samples are taken one after the other, and the save,
\* display and report of a sample are complete before the forward pass of the
\* next.  (The order of consecutive steps gives the order of all of them.)
C8_PhaseOrder ==
    LET done == {log[i] : i \in 1..Len(log)}
    IN  /\ \A i \in 1..(Len(log) - 1) : C8_Before(log[i], log[i + 1])
        /\ \A e \in done :
              /\ (e.op = "forward" /\ e.sample > 1) =>
                    \A op \in {"savefig", "show", "report"} :
                       Event(op, e.sample - 1, TRUE) \in done
              /\ C8_Phase(e.op) = 7 =>
                    \A op \in {"load_config", "build_model", "torch_load", "build_dataset"} :
                       Event(op, 0, TRUE) \in done

C8_Witness ==
    /\ pc = "done"
    /\ batch_no = 2
    /\ Len(log) >= 20

\* C9: in one call the forward pass precedes the rendering; with a save path the
\* figure is written, at 300 dpi, before it is displayed; without one no file
\* is written; the report is printed only after the display.
C9_CallOrder ==
    /\ \A i \in At("scatter", batch_no) :
          \E j \in At("forward", batch_no) : j < i /\ log[j].ok
    /\ \A i \in At("show", batch_no) :
          Truthy(save_path) =>
             /\ \E j \in At("savefig", batch_no) : j < i /\ log[j].ok
             /\ [path |-> Get(save_path), dpi |-> 300, bbox_inches |-> "tight"] \in files
    /\ ~Truthy(save_path) => files = {} /\ At("savefig", batch_no) = {}
    /\ \A i \in At("report", batch_no) : \E j \in At("show", batch_no) : j < i
    /\ Len(stdout) > 0 => At("show", batch_no) # {}

C9_Witness ==
    /\ pc = "returned"
    /\ save_path = Some(S_out_png)
    /\ Cardinality(files) = 1
    /\ Len(stdout) = 1

\* the extremes of the three axes of the sample
C10_Max == [a \in 0..2 |-> CHOOSE m \in {Get(data).x[i][a + 1] : i \in 1..NPoints} :
                              \A i \in 1..NPoints : Get(data).x[i][a + 1] <= m]
C10_Min == [a \in 0..2 |-> CHOOSE m \in {Get(data).x[i][a + 1] : i \in 1..NPoints} :
                              \A i \in 1..NPoints : Get(data).x[i][a + 1] >= m]
\* the greatest of three numbers
C10_Greatest(v) == CHOOSE s \in {v[a] : a \in 0..2} : \A a \in 0..2 : v[a] <= s
\* the limits set for axis a of subplot ax
C10_Lim(ax, a) == IF a = 0 THEN Get(ax.xlim) ELSE IF a = 1 THEN Get(ax.ylim) ELSE Get(ax.zlim)
C10_LimitsSet == ~IsNone(fig) /\ ~IsNone(Get(fig).ax1.xlim)
\* every point lies inside the limits of subplot ax on all three axes
C10_Inside(ax) ==
    \A i \in 1..NPoints : \A a \in 0..2 :
        /\ C10_Lim(ax, a).lo <= Get(data).x[i][a + 1]
        /\ Get(data).x[i][a + 1] <= C10_Lim(ax, a).hi
\* the limits are mid - max_range and mid + max_range, where max_range is half
\* of the largest span and mid the midpoint of the axis (numbers count halves)
C10_BoxAsClaimed(ax) ==
    LET mx == C10_Max
        mn == C10_Min
        span == C10_Greatest([a \in 0..2 |-> mx[a] - mn[a]])
    IN  \A a \in 0..2 :
            /\ 2 * C10_Lim(ax, a).lo = (mx[a] + mn[a]) - span
            /\ 2 * C10_Lim(ax, a).hi = (mx[a] + mn[a]) + span
\* no sum or difference of the computation is rounded
C10_Exact ==
    LET mx == C10_Max
        mn == C10_Min
        span == C10_Greatest([a \in 0..2 |-> mx[a] - mn[a]])
    IN  \A a \in 0..2 :
            /\ Fl(mx[a] - mn[a]) = mx[a] - mn[a]
            /\ Fl(mx[a] + mn[a]) = mx[a] + mn[a]
            /\ Fl(Half(mx[a] + mn[a]) - Half(span)) = Half(mx[a] + mn[a]) - Half(span)
            /\ Fl(Half(mx[a] + mn[a]) + Half(span)) = Half(mx[a] + mn[a]) + Half(span)
\* the limits are those of the floating point computation
C10_BoxAsComputed(ax) ==
    LET mx == C10_Max
        mn == C10_Min
        range == Half(C10_Greatest([a \in 0..2 |-> Fl(mx[a] - mn[a])]))
    IN  \A a \in 0..2 :
            /\ C10_Lim(ax, a).lo = Fl(Half(Fl(mx[a] + mn[a])) - range)
            /\ C10_Lim(ax, a).hi = Fl(Half(Fl(mx[a] + mn[a])) + range)
\* the sample of the example: X:[0,2], Y:[0,4], Z:[0,1]
C10_IsExample ==
    /\ C10_Min = [a \in 0..2 |-> Coord(0)]
    /\ C10_Max = (0 :> Coord(2)) @@ (1 :> Coord(4)) @@ (2 :> Coord(1))
\* max_range 2 and centres 1, 2, 0.5: limits [-1,3], [0,4], [-1.5,2.5] (in halves)
C10_ExampleBox(ax) ==
    /\ Get(ax.xlim) = [lo |-> 0 - 2, hi |-> 6]
    /\ Get(ax.ylim) = [lo |-> 0, hi |-> 8]
    /\ Get(ax.zlim) = [lo |-> 0 - 3, hi |-> 5]

\* C10 as stated: both subplots get the box of half-width max_range (half of the
\* largest axis span) around the midpoint of each axis, and every point of the
\* sample lies inside it.
C10_AsStated ==
    C10_LimitsSet =>
        \A ax \in {Get(fig).ax1, Get(fig).ax2} : C10_BoxAsClaimed(ax) /\ C10_Inside(ax)

\* C10 (amended): both subplots get the same limits, computed in floating point:
\* max_range is half of the largest of the three rounded spans fl(max - min) and
\* the limits of an axis are fl(mid - max_range) and fl(mid + max_range) with
\* mid = fl(max + min) / 2 (the example gives max_range 2 and centres 1, 2,
\* 0.5); when no sum or difference of the computation is rounded, the box is
\* the one stated and every point of the sample lies inside it.
C10_BoundingBox ==
    C10_LimitsSet =>
        /\ \A a \in 0..2 : C10_Lim(Get(fig).ax1, a) = C10_Lim(Get(fig).ax2, a)
        /\ \A ax \in {Get(fig).ax1, Get(fig).ax2} :
              /\ C10_BoxAsComputed(ax)
              /\ C10_Exact => C10_BoxAsClaimed(ax) /\ C10_Inside(ax)
              /\ C10_IsExample => C10_ExampleBox(ax)
              /\ ax.elev = Some(30) /\ ax.azim = Some(45)

\* the example, with its limits set
C10_Witness ==
    /\ C10_LimitsSet
    /\ NPoints = 2
    /\ C10_IsExample
    /\ C10_Exact

====
